---------------------------- MODULE Spec2Model ----------------------------
(***************************************************************************)
(* Model of the IOS-XR show command collector (showCmdCollector.py).       *)
(*                                                                         *)
(* Strings are sequences of one-character strings, so that the character   *)
(* level functions of the program (str_sanitize, urllib.quote, str.format, *)
(* str.strip) are computed as the code computes them.                      *)
(***************************************************************************)
EXTENDS Integers, Sequences, FiniteSets, TLC

VARIABLES
    pc,          \* position of the process: cli, execute, open, session, done, exited, raised, crashed
    self,        \* the fields of the Collector object set by __init__
    am,          \* the AccountManager built by execute, or None
    url_prefix,  \* the local url_prefix of execute
    hostIdx,     \* index in self.hosts of the host the loop of execute is at
    pos,         \* position in the command sequence of the current host
    session,     \* "open" while inside the with block of a host, otherwise "closed"
    opens,       \* every session open attempt, in order
    closes,      \* hostIdx -> number of times the session of that host was closed
    sends,       \* every conn.send call, in order, with its outcome
    saved,       \* every completed _save_output_file call, in order
    files,       \* the output directory: file name -> sequence of bodies appended
    files0,      \* the output directory before the run
    outdir,      \* what is at the output directory path: absent, dir or file
    errlog,      \* the logger.error / logger.critical calls, in order
    fn,          \* the pure function under evaluation (function level specification)
    input,       \* its arguments
    result       \* its values, in the order it was applied

runVars == <<pc, self, am, url_prefix, hostIdx, pos, session, opens, closes,
             sends, saved, files, files0, outdir, errlog>>
pureVars == <<fn, input, result>>
vars == <<pc, self, am, url_prefix, hostIdx, pos, session, opens, closes,
          sends, saved, files, files0, outdir, errlog, fn, input, result>>

None == "None"

-----------------------------------------------------------------------------
(* Characters and strings *)

Letters == {"a","b","c","d","e","f","g","h","i","j","k","l","m","n","o","p","q",
            "r","s","t","u","v","w","x","y","z",
            "A","B","C","D","E","F","G","H","I","J","K","L","M","N","O","P","Q",
            "R","S","T","U","V","W","X","Y","Z"}
Digits == {"0","1","2","3","4","5","6","7","8","9"}

\* str.isalnum on one character
isalnum(c) == c \in Letters \cup Digits

\* the characters str.strip() removes
Whitespace == {" ", "\t", "\n", "\r", "\f"}

RECURSIVE Filter(_, _)
Filter(s, keep) ==
    IF s = <<>> THEN <<>>
    ELSE IF isalnum(Head(s)) \/ Head(s) \in keep
         THEN <<Head(s)>> \o Filter(Tail(s), keep)
         ELSE Filter(Tail(s), keep)

RECURSIVE lstrip(_)
lstrip(s) ==
    IF s # <<>> /\ Head(s) \in Whitespace THEN lstrip(Tail(s)) ELSE s

RECURSIVE rstrip(_)
rstrip(s) ==
    IF s # <<>> /\ s[Len(s)] \in Whitespace
    THEN rstrip(SubSeq(s, 1, Len(s) - 1)) ELSE s

\* str.strip()
strip(s) == rstrip(lstrip(s))

\* str.replace(old, new) for a one-character old
replace(s, old, new) ==
    [i \in 1..Len(s) |-> IF s[i] = old THEN new ELSE s[i]]

keepcharacters == {" ", "-", "_"}

\* A sanitizer that writes a dot for a space: the dot is not a kept character.
str_sanitize_dot(s) ==
    replace(strip(Filter(s, keepcharacters)), " ", ".")

str_sanitize(s) ==
    replace(strip(Filter(s, keepcharacters)), " ", "_")


\* cmd_id[:min(30,len(cmd_id))]
MaxCmdIdLen == 30

Min(a, b) == IF a < b THEN a ELSE b

\* the sanitized command, left at its whole length
cmd_id_of_untruncated(command) == str_sanitize(command)

\* the command part of a file name, lines 202-203 of _save_output_file
cmd_id_of(command) ==
    LET cmd_id == str_sanitize(command)
    IN  SubSeq(cmd_id, 1, Min(MaxCmdIdLen, Len(cmd_id)))

-----------------------------------------------------------------------------
(* urllib.quote *)

\* urllib.always_safe and the default safe='/'
AlwaysSafe == Letters \cup Digits \cup {"_", ".", "-"}
QuoteSafe == AlwaysSafe \cup {"/"}

\* '%XX' of the characters the model's inputs hold outside QuoteSafe
PercentCode(c) ==
    CASE c = "@" -> <<"%", "4", "0">>
      [] c = ":" -> <<"%", "3", "A">>
      [] c = " " -> <<"%", "2", "0">>
      [] c = "%" -> <<"%", "2", "5">>
      [] c = "#" -> <<"%", "2", "3">>
      [] c = "!" -> <<"%", "2", "1">>
      [] OTHER   -> <<"%", "X", "X">>

RECURSIVE quote(_)
quote(s) ==
    IF s = <<>> THEN <<>>
    ELSE (IF Head(s) \in QuoteSafe THEN <<Head(s)>> ELSE PercentCode(Head(s)))
         \o quote(Tail(s))

-----------------------------------------------------------------------------
(* str.format on a template: a sequence of literal pieces and placeholders *)

Ph(name) == [ph |-> name, lit |-> <<>>]
Lit(text) == [ph |-> None, lit |-> text]

\* template.format(**fields): KeyError when a placeholder names no field
RECURSIVE Format(_, _)
Format(template, fields) ==
    IF template = <<>> THEN [ok |-> TRUE, val |-> <<>>]
    ELSE LET p == Head(template)
             rest == Format(Tail(template), fields)
         IN  IF p.ph # None /\ p.ph \notin DOMAIN fields
             THEN [ok |-> FALSE, val |-> <<>>]
             ELSE IF ~rest.ok THEN rest
             ELSE [ok |-> TRUE,
                   val |-> (IF p.ph = None THEN p.lit ELSE fields[p.ph]) \o rest.val]

\* the default of --filename-format
DEFAULT_FILENAME_FORMAT ==
    << Ph("prefix"), Ph("cmd_file_name"), Lit(<<"_", "_">>), Ph("device_name"),
       Lit(<<"_", "_">>), Ph("command"), Ph("suffix") >>

\* the other example of the help text: '{cmd_file_name}-{device_name}{suffix}'
PER_GROUP_FILENAME_FORMAT ==
    << Ph("cmd_file_name"), Lit(<<"-">>), Ph("device_name"), Ph("suffix") >>

DEFAULT_OUTPUT_TEMPLATE ==
    << Lit(<<"=====\n== Device: ">>), Ph("device"),
       Lit(<<"\n== Command: ">>), Ph("command"),
       Lit(<<"\n== Timestamp: ">>), Ph("time"),
       Lit(<<"\n=====\n">>), Ph("output"), Lit(<<"\n">>) >>

DEFAULT_PREFIX == <<>>
DEFAULT_SUFFIX == <<".", "t", "x", "t">>

\* The display name put into the file name as it is, the way it is put into
\* the content.
file_name_of_raw_device(filename_format, prefix, suffix, cmd_set, device_name, command) ==
    Format(filename_format,
           [prefix        |-> prefix,
            cmd_file_name |-> cmd_set,
            device_name   |-> device_name,
            command       |-> cmd_id_of(command),
            suffix        |-> suffix])

\* file_name of _save_output_file
file_name_of(filename_format, prefix, suffix, cmd_set, device_name, command) ==
    Format(filename_format,
           [prefix        |-> prefix,
            cmd_file_name |-> cmd_set,
            device_name   |-> str_sanitize(device_name),
            command       |-> cmd_id_of(command),
            suffix        |-> suffix])

\* line 209: os.path.join(self.output_dir, file_name) of posixpath
path_join(dir, name) ==
    IF name # <<>> /\ Head(name) = "/" THEN name
    ELSE IF dir = <<>> \/ dir[Len(dir)] = "/" THEN dir \o name
    ELSE dir \o <<"/">> \o name

\* content of _save_output_file
content_of(output_template, cmd_set, device_name, command, time, output) ==
    Format(output_template,
           [device        |-> device_name,
            cmd_file_name |-> cmd_set,
            command       |-> command,
            time          |-> time,
            output        |-> output])

-----------------------------------------------------------------------------
(* Input files.  What a path names is a record:                             *)
(*   kind "missing";  kind "file" with a base name and lines;               *)
(*   kind "dir" with its entries in os.listdir order.                       *)

Missing == [kind |-> "missing", name |-> <<>>, lines |-> <<>>, entries |-> <<>>]
File(name, lines) == [kind |-> "file", name |-> name, lines |-> lines, entries |-> <<>>]
Dir(entries) == [kind |-> "dir", name |-> <<>>, lines |-> <<>>, entries |-> entries]

\* lines 229-240: the files to read, directories unfolded one level
RECURSIVE OnlyFiles(_)
OnlyFiles(entries) ==
    IF entries = <<>> THEN <<>>
    ELSE (IF Head(entries).kind = "file" THEN <<Head(entries)>> ELSE <<>>)
         \o OnlyFiles(Tail(entries))

RECURSIVE all_files_of(_)
all_files_of(paths) ==
    IF paths = <<>> THEN <<>>
    ELSE LET f == Head(paths)
         IN  (CASE f.kind = "file" -> <<f>>
                [] f.kind = "dir"  -> OnlyFiles(f.entries)
                [] OTHER           -> <<>>)
             \o all_files_of(Tail(paths))

\* line 240: one "Invalid path" error per path that does not exist
RECURSIVE invalid_paths_of(_)
invalid_paths_of(paths) ==
    IF paths = <<>> THEN <<>>
    ELSE (IF Head(paths).kind = "missing" THEN <<"Invalid path">> ELSE <<>>)
         \o invalid_paths_of(Tail(paths))

\* lines 248-252: the stripped lines that are not empty and not comments
RECURSIVE kept_lines(_, _)
kept_lines(lines, comment_char) ==
    IF lines = <<>> THEN <<>>
    ELSE LET line == strip(Head(lines))
         IN  (IF line = <<>> \/ line[1] = comment_char THEN <<>> ELSE <<line>>)
             \o kept_lines(Tail(lines), comment_char)

DotTxt == <<".", "t", "x", "t">>

\* line 254: fname[:-4] if fname[-4:] == '.txt' else fname, sanitized
group_of(fname) ==
    LET n == Len(fname)
        last4 == SubSeq(fname, IF n > 4 THEN n - 3 ELSE 1, n)
    IN  str_sanitize(IF last4 = DotTxt THEN SubSeq(fname, 1, n - 4) ELSE fname)

RECURSIVE read_files(_, _)
read_files(fs, comment_char) ==
    IF fs = <<>> THEN <<>>
    ELSE << <<group_of(Head(fs).name), kept_lines(Head(fs).lines, comment_char)>> >>
         \o read_files(Tail(fs), comment_char)

\* Collector._get_not_empty_lines: a list of couples (group, lines)
get_not_empty_lines(paths, comment_char) ==
    read_files(all_files_of(paths), comment_char)

RECURSIVE Flatten(_)
Flatten(seqs) ==
    IF seqs = <<>> THEN <<>> ELSE Head(seqs) \o Flatten(Tail(seqs))

\* line.split(None, 1) of a stripped line that holds whitespace
RECURSIVE first_token(_)
first_token(line) ==
    IF line = <<>> \/ Head(line) \in Whitespace THEN <<>>
    ELSE <<Head(line)>> \o first_token(Tail(line))

split_host(line) ==
    LET hostname == first_token(line)
    IN  <<hostname, lstrip(SubSeq(line, Len(hostname) + 1, Len(line)))>>

\* the line cut at its first space or tab, one character wide
host_of_single_separator(line) ==
    IF \E i \in 1..Len(line) : line[i] \in {" ", "\t"}
    THEN LET i == CHOOSE i \in 1..Len(line) :
                      /\ line[i] \in {" ", "\t"}
                      /\ \A j \in 1..(i - 1) : line[j] \notin {" ", "\t"}
         IN  <<SubSeq(line, 1, i - 1), SubSeq(line, i + 1, Len(line))>>
    ELSE <<line, line>>

\* lines 270-274
host_of(line) ==
    IF \E i \in 1..Len(line) : line[i] \in {" ", "\t"}
    THEN split_host(line)
    ELSE <<line, line>>

\* Collector._parse_hosts
parse_hosts(paths) ==
    LET lines == Flatten([k \in 1..Len(get_not_empty_lines(paths, "#")) |->
                            get_not_empty_lines(paths, "#")[k][2]])
    IN  [k \in 1..Len(lines) |-> host_of(lines[k])]

-----------------------------------------------------------------------------
(* The command line arguments and input files the model runs on *)

\* an absent option (None) and the empty string are both the falsy <<>>
Falsy == <<>>

HostFileA ==
    File(<<"h", "o", "s", "t", "s">>,
         << <<"h", "1", " ", "r", "1">>, <<"#", " ", "c">>, <<>>, <<" ", "h", "2", "\n">> >>)
\* the same address twice, with a display name that holds a path separator
HostFileB ==
    File(<<"l", "a", "b">>,
         << <<"h", "1", "\t", "r", "/", "1">>, <<"h", "1", "\t", "r", "/", "1">> >>)

\* a host file that holds no host
HostFileC ==
    File(<<"n", "o", "n", "e">>, << <<"#", " ", "h", "1">>, <<>> >>)

\* a command file that holds no command
CmdFileE ==
    File(<<"e">>, << <<"!", " ", "a">> >>)

\* two commands whose sanitized forms are the same, and a comment
CmdFileG ==
    File(<<"g", ".", "t", "x", "t">>,
         << <<"a", " ", "b">>, <<"!", "c">>, <<"a", "_", "b">> >>)
\* a directory: a one-command file, a file of comments only, a sub-directory
CmdDirD ==
    Dir(<< File(<<"x", ".", "t", "x", "t">>, << <<"s">> >>),
           Dir(<<>>),
           File(<<"y">>, << <<"!", "c">> >>),
           File(<<"z", "_">>, << <<"s", "?">> >>) >>)

InitFileI ==
    File(<<"i", "n", "i", "t">>, << <<"t", "0">>, <<"!", "x">>, <<"w", "0">> >>)

TERMINAL_LENGTH_0 ==
    <<"t", "e", "r", "m", "i", "n", "a", "l", " ", "l", "e", "n", "g", "t", "h", " ", "0">>

\* a custom output template, and one that names a field format() is not given
CUSTOM_OUTPUT_TEMPLATE == << Ph("device"), Lit(<<": ">>), Ph("output") >>
BAD_OUTPUT_TEMPLATE == << Ph("hostname"), Lit(<<": ">>), Ph("output") >>

UserU == <<"u", "@">>
PassP == <<"p", ":">>
AccountsFile == <<"a", "c", "c">>

OutputTemplates ==
    { Falsy, <<Missing>>, <<File(<<"t">>, CUSTOM_OUTPUT_TEMPLATE)>>,
      <<File(<<"b">>, BAD_OUTPUT_TEMPLATE)>> }

\* every combination of the credential options, on the first input files
CredentialRuns ==
    [ host_files      : { <<HostFileA>> },
      command_files   : { <<CmdFileG>> },
      init_cmd_files  : { Falsy },
      username        : { Falsy, UserU },
      password        : { Falsy, PassP },
      accounts_file   : { Falsy, AccountsFile },
      filename_format : { DEFAULT_FILENAME_FORMAT },
      output_prefix   : { DEFAULT_PREFIX },
      output_suffix   : { DEFAULT_SUFFIX },
      output_template : { Falsy } ]

\* every combination of the input files
InputRuns ==
    [ host_files      : { <<HostFileA>>, <<HostFileB>>, <<Missing>>, <<HostFileC>> },
      command_files   : { <<CmdFileG>>, <<Missing, CmdDirD>>, <<CmdFileE>> },
      init_cmd_files  : { Falsy, <<InitFileI>> },
      username        : { UserU },
      password        : { PassP },
      accounts_file   : { Falsy },
      filename_format : { DEFAULT_FILENAME_FORMAT },
      output_prefix   : { DEFAULT_PREFIX },
      output_suffix   : { DEFAULT_SUFFIX },
      output_template : { Falsy } ]

\* every combination of the file name formats and the output templates
FormatRuns ==
    [ host_files      : { <<HostFileA>> },
      command_files   : { <<CmdFileG>> },
      init_cmd_files  : { Falsy },
      username        : { UserU },
      password        : { PassP },
      accounts_file   : { Falsy },
      filename_format : { DEFAULT_FILENAME_FORMAT, PER_GROUP_FILENAME_FORMAT },
      output_prefix   : { DEFAULT_PREFIX },
      output_suffix   : { DEFAULT_SUFFIX },
      output_template : OutputTemplates ]

ArgsSet == CredentialRuns \cup InputRuns \cup FormatRuns

\* what getpass.getpass() may return
GetpassResults == { Falsy, PassP }

-----------------------------------------------------------------------------
(* Collector.__init__ *)

Log(level, msg, host) == [level |-> level, msg |-> msg, host |-> host]

RECURSIVE LogAll(_, _)
LogAll(level, msgs) ==
    IF msgs = <<>> THEN <<>>
    ELSE <<Log(level, Head(msgs), 0)>> \o LogAll(level, Tail(msgs))

\* a field __init__ has not assigned
Unset == <<>>

\* The default command kept in front of the commands of the init file.
init_commands_of_default_kept(args) ==
    <<TERMINAL_LENGTH_0>>
    \o (IF args.init_cmd_files # Falsy
        THEN LET items == get_not_empty_lines(args.init_cmd_files, "!")
             IN  Flatten([k \in 1..Len(items) |-> items[k][2]])
        ELSE <<>>)

\* lines 86-92
init_commands_of(args) ==
    IF args.init_cmd_files # Falsy
    THEN LET items == get_not_empty_lines(args.init_cmd_files, "!")
         IN  Flatten([k \in 1..Len(items) |-> items[k][2]])
    ELSE <<TERMINAL_LENGTH_0>>

\* the "Invalid path" errors of the three parses of lines 86-99, in order
parse_errors_of(args) ==
    LogAll("error",
           (IF args.init_cmd_files # Falsy
            THEN invalid_paths_of(args.init_cmd_files) ELSE <<>>)
           \o invalid_paths_of(args.command_files)
           \o invalid_paths_of(args.host_files))

\* The test with the negation bound to the username alone.
no_credentials_misplaced_not(username, accounts_file) ==
    ~(username # Falsy) /\ accounts_file # Falsy

\* lines 104-106: neither a username nor an accounts file
no_credentials(username, accounts_file) ==
    ~(username # Falsy \/ accounts_file # Falsy)

\* The constructor without the test of lines 116-118.
not_a_directory_unchecked(dir) == FALSE

\* line 116: not os.path.isdir(self.output_dir), dir being what the path is
\* once lines 112-114 are done
not_a_directory(dir) == dir # "dir"

\* lines 125-133
output_template_of(args) ==
    IF args.output_template # Falsy
    THEN IF args.output_template[1].kind # "file"
         THEN DEFAULT_OUTPUT_TEMPLATE
         ELSE args.output_template[1].lines
    ELSE DEFAULT_OUTPUT_TEMPLATE

template_errors_of(args) ==
    IF args.output_template # Falsy /\ args.output_template[1].kind # "file"
    THEN <<Log("error", "Cannot use the specified output template file", 0)>>
    ELSE <<>>

\* The constructor, lines 65-133: args are the parsed command line, getpass
\* what the password prompt returns, makedirs whether os.makedirs succeeds.
Construct(args, getpass, makedirs) ==
    LET parsed == [ init_cmd_files  |-> args.init_cmd_files,
                    init_commands   |-> init_commands_of(args),
                    commands        |-> get_not_empty_lines(args.command_files, "!"),
                    hosts           |-> parse_hosts(args.host_files),
                    username        |-> args.username,
                    accounts_file   |-> args.accounts_file,
                    password        |-> Unset,
                    filename_format |-> Unset,
                    output_prefix   |-> Unset,
                    output_suffix   |-> Unset,
                    output_template |-> Unset ]
        password == IF args.username # Falsy /\ args.password = Falsy
                    THEN getpass ELSE args.password
    IN  /\ pc = "cli"
        /\ UNCHANGED <<am, url_prefix, hostIdx, pos, session, opens, closes, sends,
                       saved, files, files0, pureVars>>
        /\ IF no_credentials(args.username, args.accounts_file)
           THEN \* logger.critical, sys.exit(0)
                /\ self' = parsed
                /\ errlog' = errlog \o parse_errors_of(args)
                                \o <<Log("critical", "No username or accounts file provided", 0)>>
                /\ pc' = "exited"
                /\ UNCHANGED outdir
           ELSE IF outdir = "absent" /\ ~makedirs
           THEN \* os.makedirs raises OSError
                /\ self' = [parsed EXCEPT !.password = password]
                /\ errlog' = errlog \o parse_errors_of(args)
                /\ pc' = "raised"
                /\ UNCHANGED outdir
           ELSE IF not_a_directory(IF outdir = "absent" THEN "dir" ELSE outdir)
           THEN \* not a directory: logger.critical, raise IOError
                /\ self' = [parsed EXCEPT !.password = password]
                /\ errlog' = errlog \o parse_errors_of(args)
                                \o <<Log("critical", "No such directory", 0)>>
                /\ pc' = "raised"
                /\ UNCHANGED outdir
           ELSE /\ self' = [parsed EXCEPT !.password = password,
                                          !.filename_format = args.filename_format,
                                          !.output_prefix = args.output_prefix,
                                          !.output_suffix = args.output_suffix,
                                          !.output_template = output_template_of(args)]
                /\ errlog' = errlog \o parse_errors_of(args) \o template_errors_of(args)
                /\ outdir' = IF outdir = "absent" THEN "dir" ELSE outdir
                /\ pc' = "execute"

\* Collector.cli, lines 338-339: the constructor on the parsed arguments
cli ==
    \E args \in ArgsSet, getpass \in GetpassResults, makedirs \in BOOLEAN :
        Construct(args, getpass, makedirs)

-----------------------------------------------------------------------------
(* Collector.execute *)

Scheme == <<"s", "s", "h", ":", "/", "/">>

\* lines 144-149
url_prefix_of(username, password) ==
    Scheme
    \o (IF username # Falsy
        THEN quote(username)
             \o (IF password # Falsy THEN <<":">> \o quote(username) ELSE <<>>)
             \o <<"@">>
        ELSE <<>>)

\* line 157: the url handed to condor.Connection
endpoint_of(prefix, hostname) == prefix \o quote(hostname)

\* lines 140-143: AccountManager(config_file=...) or None when it raises
AccountManagers == { "AccountManager", None }

\* The commands one session goes through, in the order of the loops of lines
\* 163 and 172-173: the init commands, then each group's commands.
init_plan(init_commands) ==
    [k \in 1..Len(init_commands) |->
        [phase |-> "init", gi |-> 0, group |-> <<>>, command |-> init_commands[k]]]

RECURSIVE collect_plan(_, _)
collect_plan(commands, gi) ==
    IF gi > Len(commands) THEN <<>>
    ELSE [k \in 1..Len(commands[gi][2]) |->
            [phase |-> "collect", gi |-> gi, group |-> commands[gi][1],
             command |-> commands[gi][2][k]]]
         \o collect_plan(commands, gi + 1)

\* The two loops in the other order: the commands to collect, then the init
\* commands.
plan_of_collect_first(obj) ==
    collect_plan(obj.commands, 1) \o init_plan(obj.init_commands)

plan_of(obj) == init_plan(obj.init_commands) \o collect_plan(obj.commands, 1)

Plan == plan_of(self)

\* the exceptions execute names in its except clauses, lines 184-191
ConnectionErrors ==
    { "ConnectionAuthenticationError", "ConnectionTimeoutError", "ConnectionError",
      "GeneralError" }

\* what opening a session may do: succeed, or raise one of the errors of condor
OpenResults == {"ok"} \cup ConnectionErrors
\* what conn.send may do: answer, or raise an error of condor or any other exception
SendResults == {"ok", "CommandSyntaxError"} \cup ConnectionErrors \cup {"Exception"}
\* what open(path, 'a') and f.write may do: write all, fail before writing,
\* fail after a part was written
WriteResults == {"ok", "IOError", "IOError after a partial write"}

\* the message of the except clause that catches an exception, lines 184-191
error_message(kind) ==
    CASE kind = "ConnectionAuthenticationError" -> "Authentication error"
      [] kind = "ConnectionTimeoutError"        -> "Connection timeout"
      [] kind = "ConnectionError"               -> "Connection error"
      [] kind = "GeneralError"                  -> "Error"

\* The except clauses of the host's try statement catch only some exceptions,
\* here with the last clause missing.
caught_by_host_try_no_general(kind) ==
    kind \in ConnectionErrors \ {"GeneralError"}

caught_by_host_try(kind) == kind \in ConnectionErrors

\* A with statement replaced by a close at the end of the block: the session
\* is closed only when the block completes.
with_exit_runs_on_completion(how) == how = "completed"

\* lines 155-182: leaving the with block runs the agent's exit on every path
\* (how: "completed", or "raised" when an exception leaves the block)
with_exit_runs(how) == how \in {"completed", "raised"}

\* ConnectionAgent.__exit__: disconnects the session
agent_exit(s) == "closed"

\* the loop of line 151 moves to the next host, or execute returns
host_loop_next(h) ==
    IF h + 1 > Len(self.hosts) THEN [pc |-> "done", hostIdx |-> h + 1]
    ELSE [pc |-> "open", hostIdx |-> h + 1]

\* lines 140-149, up to the head of the host loop
ExecuteStart ==
    /\ pc = "execute"
    /\ \E a \in AccountManagers : am' = a
    /\ url_prefix' = url_prefix_of(self.username, self.password)
    /\ hostIdx' = 1
    /\ pc' = IF self.hosts = <<>> THEN "done" ELSE "open"
    /\ UNCHANGED <<self, pos, session, opens, closes, sends, saved, files, files0,
                   outdir, errlog, pureVars>>

\* leaving the with block of host hostIdx
LeaveWith(how) ==
    IF with_exit_runs(how)
    THEN /\ session' = agent_exit(session)
         /\ closes' = Append(closes, hostIdx)
    ELSE UNCHANGED <<session, closes>>

\* an exception reaches the try statement of line 154
Raise(kind) ==
    IF caught_by_host_try(kind)
    THEN /\ errlog' = Append(errlog, Log("error", error_message(kind), hostIdx))
         /\ pc' = host_loop_next(hostIdx).pc
         /\ hostIdx' = host_loop_next(hostIdx).hostIdx
    ELSE /\ pc' = "crashed"
         /\ UNCHANGED <<errlog, hostIdx>>

\* lines 155-160: entering the with block opens the session of the host
OpenSession ==
    /\ pc = "open"
    /\ \E r \in OpenResults :
        /\ opens' = Append(opens, [host     |-> hostIdx,
                                   name     |-> self.hosts[hostIdx][2],
                                   endpoint |-> endpoint_of(url_prefix, self.hosts[hostIdx][1]),
                                   am       |-> am,
                                   result   |-> r])
        /\ IF r = "ok"
           THEN /\ session' = "open"
                /\ pos' = 1
                /\ pc' = "session"
                /\ UNCHANGED <<errlog, hostIdx>>
           ELSE /\ Raise(r)
                /\ UNCHANGED <<session, pos>>
    /\ UNCHANGED <<self, am, url_prefix, closes, sends, saved, files, files0, outdir,
                   pureVars>>

\* what the device answers to the n-th send, and the clock reading at that time
output_of(n) == << "<output ", ToString(n), ">" >>
time_of(n) == << "<time ", ToString(n), ">" >>

SendRecord(r) ==
    [host    |-> hostIdx,
     k       |-> pos,
     phase   |-> Plan[pos].phase,
     command |-> Plan[pos].command,
     result  |-> r,
     output  |-> IF r = "ok" THEN output_of(Len(sends) + 1) ELSE <<>>]

\* The handler of a CommandSyntaxError leaves the loop over the commands of
\* the group (a break): the next command is the first one of a later group.
RECURSIVE after_syntax_error_break(_)
after_syntax_error_break(k) ==
    IF k + 1 <= Len(Plan) /\ Plan[k + 1].gi = Plan[k].gi
    THEN after_syntax_error_break(k + 1)
    ELSE k + 1

\* lines 168-169 and 179-180: the error is logged and the loop goes on with
\* the next command
after_syntax_error(k) == k + 1

\* The except clauses of lines 168 and 179 widened to GeneralError, the base
\* class of the errors of condor.
caught_by_command_try_general(kind) ==
    kind \in {"CommandSyntaxError"} \cup ConnectionErrors

\* The sends without a try statement of their own.
caught_by_command_try_missing(kind) == FALSE

\* lines 168 and 179: except CommandSyntaxError
caught_by_command_try(kind) == kind = "CommandSyntaxError"

\* lines 163-169: one iteration of the loop over the init commands
SendInit ==
    /\ pc = "session"
    /\ pos <= Len(Plan)
    /\ Plan[pos].phase = "init"
    /\ \E r \in SendResults :
        /\ sends' = Append(sends, SendRecord(r))
        /\ CASE r = "ok" ->
                  /\ pos' = pos + 1
                  /\ UNCHANGED <<pc, hostIdx, session, closes, errlog>>
             [] caught_by_command_try(r) ->
                  /\ errlog' = Append(errlog, Log("error", "Unknown command error", hostIdx))
                  /\ pos' = after_syntax_error(pos)
                  /\ UNCHANGED <<pc, hostIdx, session, closes>>
             [] OTHER ->
                  /\ LeaveWith("raised")
                  /\ Raise(r)
                  /\ UNCHANGED pos
    /\ UNCHANGED <<self, am, url_prefix, opens, saved, files, files0, outdir, pureVars>>

\* A file opened with mode 'w': the write replaces what the file held.
write_truncating(old, content) == content

\* lines 217-218: open(path, 'a') and f.write(content)
write_appending(old, content) == old \o content

content_at(dir, name) == IF name \in DOMAIN dir THEN dir[name] ELSE <<>>

\* the directory after a write of content to the file name
written(dir, name, content) ==
    [n \in DOMAIN dir \cup {name} |->
        IF n = name THEN write_appending(content_at(dir, name), content) ELSE dir[n]]

\* The call of _save_output_file moved out of the try statement: it runs
\* whatever the send has done.
saves_output_always(r) == TRUE

\* lines 176-177: _save_output_file is called when conn.send has returned
saves_output(r) == r = "ok"

\* lines 172-180: one iteration of the loop over the commands to collect,
\* with the call of _save_output_file (lines 194-218)
Collect ==
    /\ pc = "session"
    /\ pos <= Len(Plan)
    /\ Plan[pos].phase = "collect"
    /\ \E r \in SendResults, w \in WriteResults :
        LET n == Len(sends) + 1
            device_name == self.hosts[hostIdx][2]
            file_name == file_name_of(self.filename_format, self.output_prefix,
                                      self.output_suffix, Plan[pos].group,
                                      device_name, Plan[pos].command)
            content == content_of(self.output_template, Plan[pos].group, device_name,
                                  Plan[pos].command, time_of(n), output_of(n))
        IN
        /\ sends' = Append(sends, SendRecord(r))
        /\ CASE saves_output(r) /\ file_name.ok /\ content.ok /\ w = "ok" ->
                  /\ files' = written(files, file_name.val, content.val)
                  /\ saved' = Append(saved, [send |-> n, name |-> file_name.val])
                  /\ pos' = pos + 1
                  /\ UNCHANGED <<pc, hostIdx, session, closes, errlog>>
             [] saves_output(r) /\ file_name.ok /\ content.ok /\ w = "IOError" ->
                  /\ LeaveWith("raised")
                  /\ Raise("IOError")
                  /\ UNCHANGED <<pos, files, saved>>
             [] saves_output(r) /\ file_name.ok /\ content.ok
                         /\ w = "IOError after a partial write" ->
                  /\ files' = written(files, file_name.val, SubSeq(content.val, 1, 1))
                  /\ LeaveWith("raised")
                  /\ Raise("IOError")
                  /\ UNCHANGED <<pos, saved>>
             [] saves_output(r) /\ ~(file_name.ok /\ content.ok) ->
                  \* str.format raises KeyError
                  /\ LeaveWith("raised")
                  /\ Raise("KeyError")
                  /\ UNCHANGED <<pos, files, saved>>
             [] caught_by_command_try(r) ->
                  /\ errlog' = Append(errlog, Log("error", "Unknown command error", hostIdx))
                  /\ pos' = after_syntax_error(pos)
                  /\ UNCHANGED <<pc, hostIdx, session, closes, files, saved>>
             [] OTHER ->
                  /\ LeaveWith("raised")
                  /\ Raise(r)
                  /\ UNCHANGED <<pos, files, saved>>
    /\ UNCHANGED <<self, am, url_prefix, opens, files0, outdir, pureVars>>

\* line 182 and the end of the with block: the commands are done
Logout ==
    /\ pc = "session"
    /\ pos > Len(Plan)
    /\ LeaveWith("completed")
    /\ pc' = host_loop_next(hostIdx).pc
    /\ hostIdx' = host_loop_next(hostIdx).hostIdx
    /\ UNCHANGED <<self, am, url_prefix, pos, opens, sends, saved, files, files0,
                   outdir, errlog, pureVars>>

-----------------------------------------------------------------------------
(* The run of the program *)

\* a file of an earlier run at the name the first command of CmdFileG gets
\* on the first host of HostFileA
OldName == <<"g", "_", "_", "r", "1", "_", "_", "a", "_", "b", ".", "t", "x", "t">>
OldContent == << "old content\n" >>

InitialDirs == { [n \in {OldName} |-> OldContent] }

Init ==
    /\ pc = "cli"
    /\ self = [ init_cmd_files |-> Unset,
                init_commands |-> Unset, commands |-> Unset, hosts |-> Unset,
                username |-> Unset, accounts_file |-> Unset, password |-> Unset,
                filename_format |-> Unset, output_prefix |-> Unset,
                output_suffix |-> Unset, output_template |-> Unset ]
    /\ am = None
    /\ url_prefix = <<>>
    /\ hostIdx = 0
    /\ pos = 0
    /\ session = "closed"
    /\ opens = <<>>
    /\ closes = <<>>
    /\ sends = <<>>
    /\ saved = <<>>
    /\ files \in InitialDirs
    /\ files0 = files
    /\ outdir \in {"absent", "dir", "file"}
    /\ errlog = <<>>
    /\ fn = None
    /\ input = <<>>
    /\ result = <<>>

Next ==
    \/ cli
    \/ ExecuteStart
    \/ OpenSession
    \/ SendInit
    \/ Collect
    \/ Logout

Spec == Init /\ [][Next]_vars

-----------------------------------------------------------------------------
(* The functions on strings, applied to every input of a bounded set *)

MaxLen == 3

RECURSIVE StringsOver(_, _)
StringsOver(chars, n) ==
    IF n = 0 THEN { <<>> }
    ELSE LET shorter == StringsOver(chars, n - 1)
         IN  shorter \cup { Append(t, c) : t \in { u \in shorter : Len(u) = n - 1 },
                                             c \in chars }

\* letters, digits, the kept characters, and characters the sanitizer drops
SanitizeChars == { "a", "1", " ", "_", "-", "/", "\t" }
SanitizeInputs == StringsOver(SanitizeChars, MaxLen)

\* file base names, display names and commands that make up file names
NameInputs == { <<"a">>, <<"_">>, <<"a", "_">>, <<"_", "a">> }
NameTriples == [ fname : NameInputs, device_name : NameInputs, command : NameInputs ]

\* a string of n times the character c
Rep(c, n) == [i \in 1..n |-> c]

\* the lengths around the 30 characters kept of a command
LongLens == {0} \cup ((MaxCmdIdLen - 2)..(MaxCmdIdLen + 1))
\* commands: a short string followed by a run of one character, so that the
\* sanitized command is shorter than, as long as, and longer than the limit
CommandInputs ==
    { t \o Rep(c, n) : t \in SanitizeInputs, c \in {"a", "-", "/"}, n \in LongLens }

MaxHostLines == 2

\* lines of a host file: addresses with and without a display name, blank
\* lines, comments, and separators of several kinds
HostLines ==
    { <<"h", " ", "r">>, <<"#", "c">>, <<>>, <<" ", "h", "\n">>,
      <<"h", "\t", " ", "r", " ", "2">>, <<"h", "\f", "r">>,
      <<"h", "\f", "r", " ", "2">>, <<" ", "#", "h">> }
HostFiles == { File(<<"h", "s">>, ls) : ls \in StringsOver(HostLines, MaxHostLines) }
\* a host file alone, and one in a directory between a path that does not
\* exist and a second file
HostPathLists ==
    { <<f>> : f \in HostFiles }
    \cup { <<Missing, Dir(<<f, Dir(<<>>), HostFileB>>), HostFileA>> : f \in HostFiles }

MaxNameLen == 2

\* display names and commands with path separators, dots and spaces
PathChars == { "a", "/", ".", " " }
PathNames == StringsOver(PathChars, MaxNameLen)
\* base names of command files
FileBaseNames ==
    { <<"a", ".", "t", "x", "t">>, <<".", ".">>, <<".", " ", "a">> }
\* a file name format with a separator of its own
NESTED_FILENAME_FORMAT ==
    << Ph("cmd_file_name"), Lit(<<"/">>), Ph("command"), Ph("suffix") >>
\* the format, prefix and suffix options: the defaults, a prefix and a suffix
\* without separator, a prefix and a suffix with one, another format
NameOptions ==
    { [filename_format |-> DEFAULT_FILENAME_FORMAT, prefix |-> DEFAULT_PREFIX,
       suffix |-> DEFAULT_SUFFIX],
      [filename_format |-> DEFAULT_FILENAME_FORMAT, prefix |-> <<".", ".">>,
       suffix |-> <<"-", ".">>],
      [filename_format |-> DEFAULT_FILENAME_FORMAT, prefix |-> <<".", ".", "/">>,
       suffix |-> DEFAULT_SUFFIX],
      [filename_format |-> DEFAULT_FILENAME_FORMAT, prefix |-> DEFAULT_PREFIX,
       suffix |-> <<"/", "x">>],
      [filename_format |-> NESTED_FILENAME_FORMAT, prefix |-> DEFAULT_PREFIX,
       suffix |-> DEFAULT_SUFFIX] }
SavePathInputs ==
    [ options : NameOptions, fname : FileBaseNames, device_name : PathNames,
      command : PathNames ]
\* the configured output directory
OutputDir == <<"o", "u", "t">>

IdleRun ==
    /\ pc = "idle"
    /\ self = [ init_cmd_files |-> Unset,
                init_commands |-> Unset, commands |-> Unset, hosts |-> Unset,
                username |-> Unset, accounts_file |-> Unset, password |-> Unset,
                filename_format |-> Unset, output_prefix |-> Unset,
                output_suffix |-> Unset, output_template |-> Unset ]
    /\ am = None
    /\ url_prefix = <<>>
    /\ hostIdx = 0
    /\ pos = 0
    /\ session = "closed"
    /\ opens = <<>>
    /\ closes = <<>>
    /\ sends = <<>>
    /\ saved = <<>>
    /\ files = [n \in {OldName} |-> OldContent]
    /\ files0 = files
    /\ outdir = "dir"
    /\ errlog = <<>>

InitPure ==
    /\ IdleRun
    /\ \/ fn = "str_sanitize" /\ input \in SanitizeInputs
       \/ fn = "file_name" /\ input \in NameTriples \X NameTriples
       \/ fn = "cmd_id" /\ input \in CommandInputs
       \/ fn = "parse_hosts" /\ input \in HostPathLists
       \/ fn = "save_path" /\ input \in SavePathInputs
    /\ result = <<>>

\* str_sanitize applied to the input, then to its own result
ApplySanitize ==
    /\ fn = "str_sanitize"
    /\ Len(result) < 2
    /\ result' = Append(result, str_sanitize(IF result = <<>> THEN input
                                             ELSE result[Len(result)]))
    /\ UNCHANGED <<fn, input, runVars>>

\* the file name of a triple under the default format, prefix and suffix
default_file_name(t) ==
    file_name_of(DEFAULT_FILENAME_FORMAT, DEFAULT_PREFIX, DEFAULT_SUFFIX,
                 group_of(t.fname), t.device_name, t.command).val

\* the components a triple contributes to its file name
components(t) ==
    <<group_of(t.fname), str_sanitize(t.device_name), cmd_id_of(t.command)>>

ApplyFileName ==
    /\ fn = "file_name"
    /\ result = <<>>
    /\ result' = <<default_file_name(input[1]), default_file_name(input[2])>>
    /\ UNCHANGED <<fn, input, runVars>>

\* the command part of the file name of the input command
ApplyCmdId ==
    /\ fn = "cmd_id"
    /\ result = <<>>
    /\ result' = <<cmd_id_of(input)>>
    /\ UNCHANGED <<fn, input, runVars>>

\* the hosts loaded from the input list of paths
ApplyParseHosts ==
    /\ fn = "parse_hosts"
    /\ result = <<>>
    /\ result' = <<parse_hosts(input)>>
    /\ UNCHANGED <<fn, input, runVars>>

\* lines 202-209: the path _save_output_file opens for the input
ApplySavePath ==
    /\ fn = "save_path"
    /\ result = <<>>
    /\ result' = <<path_join(OutputDir,
                             file_name_of(input.options.filename_format,
                                          input.options.prefix, input.options.suffix,
                                          group_of(input.fname), input.device_name,
                                          input.command).val)>>
    /\ UNCHANGED <<fn, input, runVars>>

NextPure ==
    ApplySanitize \/ ApplyFileName \/ ApplyCmdId \/ ApplyParseHosts \/ ApplySavePath

SpecPure == InitPure /\ [][NextPure]_vars

-----------------------------------------------------------------------------
(* Properties *)

HostSends(h) == SelectSeq(sends, LAMBDA e : e.host = h)

Opened(h) == \E i \in 1..Len(opens) : opens[i].host = h /\ opens[i].result = "ok"

\* the with block of host h was left by the end of its commands or by an
\* exception the host's try statement names, none of them raised by a send
RanToLogout(h) ==
    /\ hostIdx > h
    /\ Opened(h)
    /\ \A i \in 1..Len(sends) :
          sends[i].host = h => sends[i].result \in {"ok", "CommandSyntaxError"}

\* every command of the plan was sent on host h, once, in the order of the plan
FullRun(h) ==
    LET hs == HostSends(h)
    IN  /\ Len(hs) = Len(Plan)
        /\ \A k \in 1..Len(hs) : hs[k].k = k /\ hs[k].command = Plan[k].command

SyntaxErrorInCollect(i) ==
    sends[i].phase = "collect" /\ sends[i].result = "CommandSyntaxError"

\* C1: a CommandSyntaxError on a collection command stops nothing.  The send
\* that follows it is the one that would have followed a success: the next
\* command of the plan on the same host (the next of the group, or the first
\* of the next group that has one) over the still open session, or, after the
\* last command, the logout and the open attempt of the next host; and a host
\* whose sends raise nothing but CommandSyntaxError is sent every command.
C1_SyntaxErrorStopsNothing ==
    \A i \in 1..Len(sends) :
        SyntaxErrorInCollect(i) =>
            LET e == sends[i]
            IN  /\ e.k < Len(Plan) =>
                      IF i < Len(sends)
                      THEN sends[i + 1].host = e.host /\ sends[i + 1].k = e.k + 1
                      ELSE /\ pc = "session" /\ session = "open"
                           /\ hostIdx = e.host /\ pos = e.k + 1
                /\ e.k = Len(Plan) =>
                      \/ /\ i = Len(sends) /\ pc = "session" /\ session = "open"
                         /\ hostIdx = e.host /\ pos = e.k + 1
                      \/ /\ hostIdx = e.host + 1
                         /\ pc = IF e.host < Len(self.hosts) THEN "open" ELSE "done"
                      \/ \E j \in 1..Len(opens) : opens[j].host = e.host + 1
                /\ RanToLogout(e.host) => FullRun(e.host)

\* a syntax error on the first host, followed by a later command of the same
\* group on that host and by the commands of the second host
C1_Witness ==
    /\ pc = "done"
    /\ \E i \in 1..Len(sends) :
          /\ SyntaxErrorInCollect(i)
          /\ sends[i].host = 1
          /\ i < Len(sends)
          /\ sends[i + 1].host = 1
          /\ Plan[sends[i + 1].k].gi = Plan[sends[i].k].gi
          /\ sends[i + 1].result = "ok"
    /\ FullRun(1) /\ FullRun(2)

OpenFailed(i) == opens[i].result \in ConnectionErrors

\* C2: a session open that fails with one of the four connection errors sends
\* no command to that host, writes nothing for it and closes nothing; the
\* failure is logged for that host; the loop goes on with the next host, which
\* is sent every command when its own session opens and its sends raise
\* nothing but CommandSyntaxError.
C2_OpenFailureSkipsOnlyThatHost ==
    \A i \in 1..Len(opens) :
        OpenFailed(i) =>
            LET h == opens[i].host
            IN  /\ HostSends(h) = <<>>
                /\ \A j \in 1..Len(saved) : sends[saved[j].send].host # h
                /\ \A j \in 1..Len(closes) : closes[j] # h
                /\ \E j \in 1..Len(errlog) :
                      errlog[j] = Log("error", error_message(opens[i].result), h)
                /\ IF h = Len(self.hosts) THEN pc = "done"
                   ELSE IF i = Len(opens) THEN pc = "open" /\ hostIdx = h + 1
                   ELSE opens[i + 1].host = h + 1
                /\ RanToLogout(h + 1) => FullRun(h + 1)

\* the first host fails to open and the second one is sent every command
C2_Witness ==
    /\ pc = "done"
    /\ Len(opens) = 2
    /\ OpenFailed(1)
    /\ opens[2].result = "ok"
    /\ Len(Plan) > 2
    /\ FullRun(2)
    /\ Len(saved) = 2

\* C3: once execute has started, no failure that arises while a host or a
\* command is processed (a failed session open, an exception raised by a send,
\* a failure while an output file is rendered or written) ends the run: an
\* exception never leaves execute.
C3_NoHostFailureEndsTheRun ==
    pc # "crashed"

CountOf(seq, x) == Cardinality({ i \in 1..Len(seq) : seq[i] = x })

\* C4: a session that was opened is closed exactly once when its with block is
\* left, on every path out of it; a session is open only while its host's
\* commands are being sent, so none is open when the next host is attempted or
\* when the run ends; a host whose session did not open is never closed.
C4_SessionClosedOnceOnEveryPath ==
    /\ session = "open" => pc = "session"
    /\ \A h \in 1..Len(self.hosts) :
          CountOf(closes, h) =
              IF Opened(h) /\ ~(pc = "session" /\ hostIdx = h) THEN 1 ELSE 0

\* the first session was left by a connection error raised by a send, the
\* second one by the exception of a failed output write after a command that
\* raised CommandSyntaxError
C4_Witness ==
    /\ pc = "crashed"
    /\ session = "closed"
    /\ closes = <<1, 2>>
    /\ \E i \in 1..Len(sends) :
          sends[i].host = 1 /\ sends[i].result = "ConnectionTimeoutError"
    /\ \E i \in 1..Len(sends) :
          sends[i].host = 2 /\ sends[i].result = "CommandSyntaxError"
    /\ sends[Len(sends)].result = "ok"
    /\ sends[Len(sends)].phase = "collect"

\* C5: with a username and a password configured, the endpoint of every open
\* attempt is ssh://<username>:<password>@<address>, each part URL-quoted.
C5_EndpointHoldsThePassword ==
    \A i \in 1..Len(opens) :
        (self.username # Falsy /\ self.password # Falsy) =>
            opens[i].endpoint =
                Scheme \o quote(self.username) \o <<":">> \o quote(self.password)
                       \o <<"@">> \o quote(self.hosts[opens[i].host][1])

\* the file name and the body of the n-th send, a collection command
NameOfSend(n) ==
    file_name_of(self.filename_format, self.output_prefix, self.output_suffix,
                 Plan[sends[n].k].group, self.hosts[sends[n].host][2],
                 sends[n].command).val

BodyOfSend(n) ==
    content_of(self.output_template, Plan[sends[n].k].group,
               self.hosts[sends[n].host][2], sends[n].command,
               time_of(n), sends[n].output).val

\* the bodies of the saved commands from the j-th on that went to a file name
RECURSIVE BodiesFor(_, _)
BodiesFor(name, j) ==
    IF j > Len(saved) THEN <<>>
    ELSE (IF NameOfSend(saved[j].send) = name THEN BodyOfSend(saved[j].send) ELSE <<>>)
         \o BodiesFor(name, j + 1)

\* the part of a body a failed write has left behind, if any
PartialTail(name) ==
    IF /\ pc = "crashed" /\ sends # <<>>
       /\ sends[Len(sends)].result = "ok" /\ sends[Len(sends)].phase = "collect"
       /\ NameOfSend(Len(sends)) = name
    THEN { <<>>, SubSeq(BodyOfSend(Len(sends)), 1, Min(1, Len(BodyOfSend(Len(sends))))) }
    ELSE { <<>> }

\* C6: writes only append.  Every file of the output directory holds what it
\* held before the run, followed by the bodies of exactly the saved commands
\* whose file name it is, in the order they were issued (followed, after a
\* write that failed, by the part of the body that write has left); the saved
\* commands are the collection commands whose send succeeded, in order.
C6_WritesAppendInIssueOrder ==
    /\ \A name \in DOMAIN files :
          \E tail \in PartialTail(name) :
              files[name] = content_at(files0, name) \o BodiesFor(name, 1) \o tail
    /\ \A name \in DOMAIN files0 : name \in DOMAIN files
    /\ \A j \in 1..Len(saved) :
          /\ NameOfSend(saved[j].send) \in DOMAIN files
          /\ sends[saved[j].send].result = "ok"
          /\ sends[saved[j].send].phase = "collect"
          /\ j > 1 => saved[j - 1].send < saved[j].send
    /\ \A n \in 1..Len(sends) :
          (sends[n].result = "ok" /\ sends[n].phase = "collect"
              /\ ~(pc = "crashed" /\ n = Len(sends)))
          => \E j \in 1..Len(saved) : saved[j].send = n

\* two commands of one host that collapse to one file name, appended in issue
\* order after the content of an earlier run
C6_Witness ==
    /\ pc = "done"
    /\ files0[OldName] = OldContent
    /\ \E j \in 1..Len(saved) :
          /\ j < Len(saved)
          /\ NameOfSend(saved[j].send) = OldName
          /\ NameOfSend(saved[j + 1].send) = OldName
          /\ sends[saved[j].send].command # sends[saved[j + 1].send].command
          /\ files[OldName] = OldContent \o BodyOfSend(saved[j].send)
                                          \o BodyOfSend(saved[j + 1].send)
    /\ Cardinality(DOMAIN files) > 1

\* C7: under the default file name format, with one prefix and one suffix,
\* two (group, device name, command) triples whose sanitized components differ
\* in at least one place get different file names.
C7_DefaultFileNameInjective ==
    (fn = "file_name" /\ result # <<>>
        /\ components(input[1]) # components(input[2]))
    => result[1] # result[2]

\* C8: with neither a username nor an accounts file the constructor logs a
\* critical error and exits, and no session open is ever attempted.
C8_NoCredentialsNoHostContacted ==
    (pc # "cli" /\ pc # "idle" /\ self.username = Falsy /\ self.accounts_file = Falsy)
    => /\ pc = "exited"
       /\ opens = <<>>
       /\ sends = <<>>
       /\ \E j \in 1..Len(errlog) : errlog[j].level = "critical"

\* the constructor has exited on input files that hold hosts
C8_Witness ==
    /\ pc = "exited"
    /\ self.username = Falsy /\ self.accounts_file = Falsy
    /\ Len(self.hosts) = 2
    /\ opens = <<>>

\* C9: the hosts are processed one after the other in host file order: the
\* open attempts are those of the hosts 1, 2, ... in order, one per host and
\* never a second one; a host is attempted only when no session is open; and
\* when the run has ended every host entry has had its one attempt.
C9_EveryHostAttemptedOnceInOrder ==
    /\ \A i \in 1..Len(opens) : opens[i].host = i
    /\ Len(opens) <= Len(self.hosts)
    /\ pc = "open" => session = "closed"
    /\ pc \in {"done", "crashed"} => Len(opens) = Len(self.hosts)

\* C10: str_sanitize is idempotent: applied to its own result it returns it.
C10_SanitizeIdempotent ==
    (fn = "str_sanitize" /\ Len(result) = 2) => result[2] = result[1]

\* an input without underscore whose inner space has become one
C10_Witness ==
    /\ fn = "str_sanitize"
    /\ Len(result) = 2
    /\ result[1] # input
    /\ \E i \in 1..Len(result[1]) : result[1][i] = "_"
    /\ \A i \in 1..Len(input) : input[i] # "_"

\* C11 as stated: the command part of a file name is at most 30 characters
\* long, and it is the empty string for a command without any letter or digit.
C11_TokenEmptyWithoutAlnum ==
    (fn = "cmd_id" /\ result # <<>>)
    => /\ Len(result[1]) <= MaxCmdIdLen
       /\ (\A i \in 1..Len(input) : ~isalnum(input[i])) => result[1] = <<>>

\* C11: the command part of a file name is at most 30 characters long, and it
\* is the empty string for a command that holds no letter, no digit, no
\* hyphen and no underscore; the computation raises no error on any command.
C11_TokenAtMostThirty ==
    (fn = "cmd_id" /\ result # <<>>)
    => /\ Len(result[1]) <= MaxCmdIdLen
       /\ (\A i \in 1..Len(input) : ~isalnum(input[i]) /\ input[i] \notin {"-", "_"})
          => result[1] = <<>>

\* a command whose sanitized form is longer than 30 characters has been cut
C11_Witness ==
    /\ fn = "cmd_id"
    /\ result # <<>>
    /\ Len(str_sanitize(input)) > MaxCmdIdLen
    /\ Len(result[1]) = MaxCmdIdLen

\* the lines of the host files in file order, trimmed, without the blank
\* ones and those that start with '#'
AllLines(paths) ==
    Flatten([k \in 1..Len(all_files_of(paths)) |-> all_files_of(paths)[k].lines])
IsHostLine(line) == strip(line) # <<>> /\ strip(line)[1] # "#"
RetainedHostLines(paths) ==
    LET kept == SelectSeq(AllLines(paths), IsHostLine)
    IN  [k \in 1..Len(kept) |-> strip(kept[k])]

\* the length of the first whitespace-delimited token of a trimmed line
TokenEnd(line) ==
    IF \E i \in 1..Len(line) : line[i] \in Whitespace
    THEN (CHOOSE i \in 1..Len(line) :
              /\ line[i] \in Whitespace
              /\ \A j \in 1..(i - 1) : line[j] \notin Whitespace) - 1
    ELSE Len(line)
FirstToken(line) == SubSeq(line, 1, TokenEnd(line))
\* what follows the first run of whitespace of a trimmed line
Remainder(line) ==
    IF TokenEnd(line) = Len(line) THEN <<>>
    ELSE LET j == CHOOSE j \in (TokenEnd(line) + 1)..Len(line) :
                      /\ line[j] \notin Whitespace
                      /\ \A i \in (TokenEnd(line) + 1)..(j - 1) : line[i] \in Whitespace
         IN  SubSeq(line, j, Len(line))
TokenAndRemainder(line) ==
    <<FirstToken(line), IF Remainder(line) = <<>> THEN FirstToken(line) ELSE Remainder(line)>>

\* C12 as stated: the loaded hosts are one entry per retained line, in file
\* order and without deduplication; the address is the first whitespace-
\* delimited token of the line and the display name what follows the first
\* run of whitespace, or the address when there is no second token.
C12_HostsSplitAtAnyWhitespace ==
    (fn = "parse_hosts" /\ result # <<>>)
    => result[1] = [k \in 1..Len(RetainedHostLines(input)) |->
                       TokenAndRemainder(RetainedHostLines(input)[k])]

\* C12: the loaded hosts are one entry per retained line, in file order and
\* without deduplication; when the trimmed line holds a space or a tab, the
\* address is its first whitespace-delimited token and the display name what
\* follows the first run of whitespace; otherwise both are the whole line.
C12_HostsOnePerRetainedLine ==
    (fn = "parse_hosts" /\ result # <<>>)
    => result[1] = [k \in 1..Len(RetainedHostLines(input)) |->
                       LET line == RetainedHostLines(input)[k]
                       IN  IF \E i \in 1..Len(line) : line[i] \in {" ", "\t"}
                           THEN TokenAndRemainder(line)
                           ELSE <<line, line>>]

\* hosts loaded from files with a dropped line: the same entry twice, and an
\* entry with a display name of its own
C12_Witness ==
    /\ fn = "parse_hosts"
    /\ result # <<>>
    /\ Len(result[1]) < Len(AllLines(input))
    /\ \E i, j \in 1..Len(result[1]) : i < j /\ result[1][i] = result[1][j]
    /\ \E k \in 1..Len(result[1]) : result[1][k][1] # result[1][k][2]

\* the error records of the except clauses of lines 184-191 for host h
ConnectionErrorRecorded(h) ==
    \E j \in 1..Len(errlog), kind \in ConnectionErrors :
        errlog[j] = Log("error", error_message(kind), h)

\* a send on host h has answered or raised CommandSyntaxError, or an output of
\* host h was written
HasCommandResults(h) ==
    \/ \E i \in 1..Len(sends) :
          sends[i].host = h /\ sends[i].result \in {"ok", "CommandSyntaxError"}
    \/ \E j \in 1..Len(saved) : sends[saved[j].send].host = h

\* C13 as stated: a host recorded as a connection error, at open or raised
\* mid-session by a send, has no command result and no persisted output.
C13_ConnectionErrorMeansNoResults ==
    \A h \in 1..Len(self.hosts) : ConnectionErrorRecorded(h) => ~HasCommandResults(h)

\* C13: a host recorded as a connection error has no command result and no
\* persisted output after the error.  When the session did not open, no
\* command was sent and nothing persisted for the host; when a send raised
\* the error, that send is the last one of the host, the sends before it
\* answered or raised CommandSyntaxError, their outputs remain, and nothing of
\* the host is persisted after it.  Every connection error raised by a send
\* ends the host's sends and is recorded for the host.
C13_NothingAfterConnectionError ==
    /\ \A h \in 1..Len(self.hosts) :
          ConnectionErrorRecorded(h) =>
              \/ /\ ~Opened(h)
                 /\ ~HasCommandResults(h)
                 /\ HostSends(h) = <<>>
              \/ /\ Opened(h)
                 /\ \E i \in 1..Len(sends) :
                       /\ sends[i].host = h
                       /\ sends[i].result \in ConnectionErrors
                       /\ \A n \in 1..Len(sends) :
                             sends[n].host = h =>
                                 \/ n = i
                                 \/ n < i /\ sends[n].result \in {"ok", "CommandSyntaxError"}
                       /\ \A j \in 1..Len(saved) :
                             sends[saved[j].send].host = h => saved[j].send < i
    /\ \A i \in 1..Len(sends) :
          sends[i].result \in ConnectionErrors =>
              /\ ConnectionErrorRecorded(sends[i].host)
              /\ \A n \in (i + 1)..Len(sends) : sends[n].host # sends[i].host

\* a send of the first host raised a connection error after an output of
\* that host was written, and the run went on to its end
C13_Witness ==
    /\ pc = "done"
    /\ ConnectionErrorRecorded(1)
    /\ \E i \in 1..Len(sends) :
          /\ sends[i].host = 1
          /\ sends[i].result = "ConnectionError"
          /\ Cardinality({ j \in 1..Len(saved) : saved[j].send < i }) = 1
    /\ \A j \in 1..Len(saved) : sends[saved[j].send].host = 1

\* the sends of collection commands on host h that answered
AnsweredCollects(h) ==
    { i \in 1..Len(sends) :
          sends[i].host = h /\ sends[i].phase = "collect" /\ sends[i].result = "ok" }
\* the bodies appended for host h
AppendedBodies(h) == { j \in 1..Len(saved) : sends[saved[j].send].host = h }

\* the step is a send of a collection command that raises CommandSyntaxError
SyntaxErrorStep ==
    /\ Len(sends') = Len(sends) + 1
    /\ sends'[Len(sends')].phase = "collect"
    /\ sends'[Len(sends')].result = "CommandSyntaxError"

\* C14 as stated: a collection command whose send raises CommandSyntaxError
\* leaves the output directory as it is, and the bodies appended for a host
\* are as many as its collection commands whose send succeeded.
C14_BodiesEqualAnsweredSends ==
    /\ [][SyntaxErrorStep => files' = files /\ saved' = saved]_vars
    /\ [](\A h \in 1..Len(self.hosts) :
              Cardinality(AppendedBodies(h)) = Cardinality(AnsweredCollects(h)))

\* the send whose output failed to be rendered or written, which ended the run
FailedSaves ==
    IF /\ pc = "crashed" /\ sends # <<>> /\ sends[Len(sends)].result = "ok"
       /\ \A j \in 1..Len(saved) : saved[j].send # Len(sends)
    THEN {Len(sends)} ELSE {}

\* C14: a collection command whose send raises CommandSyntaxError leaves the
\* output directory as it is, no file created and nothing appended; and the
\* bodies appended for a host are as many as its collection commands whose
\* send succeeded, less the one, if any, whose output failed to be rendered
\* or written.
C14_SyntaxErrorWritesNothing ==
    /\ [][SyntaxErrorStep => files' = files /\ saved' = saved]_vars
    /\ [](\A h \in 1..Len(self.hosts) :
              Cardinality(AppendedBodies(h)) =
                  Cardinality(AnsweredCollects(h) \ FailedSaves))

\* on the first host one collection command raised CommandSyntaxError and
\* another one answered, and the directory has gained that one body
C14_Witness ==
    /\ pc = "done"
    /\ \E i \in 1..Len(sends) :
          sends[i].host = 1 /\ SyntaxErrorInCollect(i)
    /\ Cardinality(AnsweredCollects(1)) = 1
    /\ Cardinality(AppendedBodies(1)) = 1
    /\ files # files0

\* the host loop of execute has been reached
InHostLoop == pc \in {"open", "session", "done", "crashed"}

\* C15: the output directory is dealt with by the constructor, before any host
\* is contacted.  A path that does not exist is created, unless the run halts:
\* on the credentials test that comes first, or on the exception of a creation
\* that fails; a path that exists and is no directory halts the run with an
\* exception after a critical error is logged; a halted run contacts no host;
\* and whenever execute is reached the output path is an existing directory.
C15_OutputDirectoryEnforced ==
    /\ [][pc = "cli" =>
            /\ outdir = "absent" =>
                  \/ pc' = "execute" /\ outdir' = "dir"
                  \/ pc' \in {"raised", "exited"} /\ outdir' = "absent"
            /\ outdir = "file" =>
                  /\ pc' \in {"raised", "exited"} /\ outdir' = "file"
                  /\ pc' = "raised" =>
                        errlog'[Len(errlog')] = Log("critical", "No such directory", 0)
            /\ outdir = "dir" => pc' \in {"execute", "exited"} /\ outdir' = "dir"]_vars
    /\ [](pc \in {"raised", "exited"} => opens = <<>> /\ sends = <<>>)
    /\ []((pc = "execute" \/ InHostLoop \/ opens # <<>>) => outdir = "dir")

\* the constructor has raised on an output path that is a file, with
\* credentials and hosts to contact, and no host was contacted
C15_Witness ==
    /\ pc = "raised"
    /\ outdir = "file"
    /\ self.username # Falsy
    /\ Len(self.hosts) = 2
    /\ opens = <<>>
    /\ \E j \in 1..Len(errlog) : errlog[j].level = "critical"

\* the commands of a session in the order claimed: the init commands as
\* configured, then the commands of each group in load order
ExpectedCommands ==
    self.init_commands
    \o Flatten([g \in 1..Len(self.commands) |-> self.commands[g][2]])

\* C16: on every host whose session opens the commands are sent one at a
\* time, hosts never interleaved, in a fixed order: at every moment the sends
\* of the host are the first commands of the sequence made of the init
\* commands in configured order followed by the commands of each group in load
\* order, each one sent once at its place, so that no collection command is
\* sent before the last init command was attempted; and when the host's
\* commands have run to the logout every command occurrence was sent exactly
\* once.
C16_CommandsSentInPlanOrder ==
    /\ \A i, j \in 1..Len(sends) : i < j => sends[i].host <= sends[j].host
    /\ \A i \in 1..Len(sends) : Opened(sends[i].host)
    /\ \A h \in 1..Len(self.hosts) :
          LET hs == HostSends(h)
          IN  /\ Len(hs) <= Len(ExpectedCommands)
              /\ \A k \in 1..Len(hs) :
                    /\ hs[k].command = ExpectedCommands[k]
                    /\ hs[k].phase = IF k <= Len(self.init_commands)
                                     THEN "init" ELSE "collect"
              /\ RanToLogout(h) => Len(hs) = Len(ExpectedCommands)

\* the first host was sent two init commands, then the commands of two groups,
\* and the second host's session has been opened
C16_Witness ==
    /\ Len(self.init_commands) = 2
    /\ Len(self.commands) = 3
    /\ Len(HostSends(1)) = 4
    /\ RanToLogout(1)
    /\ Opened(2)

SyntaxErrorInInit(i) ==
    sends[i].phase = "init" /\ sends[i].result = "CommandSyntaxError"

\* C17: an init command on which send raises CommandSyntaxError is skipped
\* and is not fatal.  The error is logged for the host, the session stays
\* open, and the send that follows on that host is the next command of the
\* sequence, an init command when one remains and else the first collection
\* command; a host whose sends raise nothing but CommandSyntaxError is sent
\* every remaining init command and every collection command.
C17_InitSyntaxErrorSkipped ==
    \A i \in 1..Len(sends) :
        SyntaxErrorInInit(i) =>
            LET e == sends[i]
            IN  /\ \E j \in 1..Len(errlog) :
                      errlog[j] = Log("error", "Unknown command error", e.host)
                /\ e.k < Len(ExpectedCommands) =>
                      IF i < Len(sends)
                      THEN /\ sends[i + 1].host = e.host
                           /\ sends[i + 1].k = e.k + 1
                           /\ sends[i + 1].command = ExpectedCommands[e.k + 1]
                      ELSE /\ pc = "session" /\ session = "open"
                           /\ hostIdx = e.host /\ pos = e.k + 1
                /\ (i = Len(sends) /\ e.k = Len(ExpectedCommands)) =>
                      \/ pc = "session" /\ session = "open" /\ hostIdx = e.host
                      \/ hostIdx > e.host /\ pc \in {"open", "session", "done"}
                /\ RanToLogout(e.host) =>
                      /\ Len(HostSends(e.host)) = Len(ExpectedCommands)
                      /\ \A k \in (e.k + 1)..Len(ExpectedCommands) :
                            HostSends(e.host)[k].command = ExpectedCommands[k]

\* the first of two init commands raised CommandSyntaxError on the first
\* host, and the second init command and the collection commands were sent
\* and answered
C17_Witness ==
    /\ Len(self.init_commands) = 2
    /\ Len(sends) >= 4
    /\ SyntaxErrorInInit(1)
    /\ RanToLogout(1)
    /\ Len(HostSends(1)) = 4
    /\ \A k \in 2..4 : sends[k].result = "ok"
    /\ Len(saved) >= 2

\* C18: an exception other than CommandSyntaxError raised by a send ends the
\* host's processing: no further command is sent on that host, the exception
\* is recorded as the host's connection error, and it does not leave the
\* host's try statement.
C18_SendExceptionFoldedIntoHostError ==
    \A i \in 1..Len(sends) :
        sends[i].result \notin {"ok", "CommandSyntaxError"} =>
            /\ \A n \in (i + 1)..Len(sends) : sends[n].host # sends[i].host
            /\ ConnectionErrorRecorded(sends[i].host)
            /\ ~(pc = "crashed" /\ i = Len(sends))

\* no host, or no command to collect, was loaded
NothingToDo ==
    \/ self.hosts = <<>>
    \/ \A g \in 1..Len(self.commands) : self.commands[g][2] = <<>>

\* C19: a run that has loaded no host or no command to collect does not end
\* as a silent success: either it halts in the constructor, or by its end it
\* has reported something about the run as a whole (a message that is not
\* about one host).
C19_EmptyInputsAreReported ==
    (pc = "done" /\ NothingToDo) =>
        \E j \in 1..Len(errlog) : errlog[j].host = 0

\* the lines of the configured init file that are retained: trimmed, not
\* blank, not starting with '!'
IsCommandLine(line) == strip(line) # <<>> /\ strip(line)[1] # "!"
RetainedInitLines ==
    LET kept == SelectSeq(AllLines(self.init_cmd_files), IsCommandLine)
    IN  [k \in 1..Len(kept) |-> strip(kept[k])]

\* the sends of init commands on host h, and the place of its first
\* collection command among its sends
InitSends(h) == SelectSeq(HostSends(h), LAMBDA e : e.phase = "init")
FirstCollect(h) ==
    IF \E k \in 1..Len(HostSends(h)) : HostSends(h)[k].phase = "collect"
    THEN CHOOSE k \in 1..Len(HostSends(h)) :
             /\ HostSends(h)[k].phase = "collect"
             /\ \A n \in 1..(k - 1) : HostSends(h)[n].phase = "init"
    ELSE Len(HostSends(h)) + 1

\* C20: without an init file the init sequence is the single command
\* 'terminal length 0'; with one it is the retained lines of that file, in
\* order, and the default command is not sent.  On every host whose session
\* opens the init sequence is what is sent first, each command once and in
\* order, before any collection command: the host's first send is its first
\* command, and a collection command is sent only after all of it.
C20_InitSequence ==
    pc \notin {"cli", "idle"} =>
        /\ self.init_commands =
              IF self.init_cmd_files = Falsy THEN <<TERMINAL_LENGTH_0>>
              ELSE RetainedInitLines
        /\ \A h \in 1..Len(self.hosts) :
              /\ Len(InitSends(h)) <= Len(self.init_commands)
              /\ \A k \in 1..Len(InitSends(h)) :
                    /\ HostSends(h)[k] = InitSends(h)[k]
                    /\ InitSends(h)[k].command = self.init_commands[k]
              /\ FirstCollect(h) <= Len(HostSends(h)) =>
                    Len(InitSends(h)) = Len(self.init_commands)
              /\ (Opened(h) /\ hostIdx > h /\ self.init_commands # <<>>) =>
                    HostSends(h) # <<>>
        /\ self.init_cmd_files # Falsy =>
              \A i \in 1..Len(sends) : sends[i].command # TERMINAL_LENGTH_0

\* a run with an init file of three lines, one of them a comment: the two
\* retained lines were sent on both hosts, before the commands to collect
C20_Witness ==
    /\ pc = "done"
    /\ self.init_cmd_files # Falsy
    /\ self.init_commands = << <<"t", "0">>, <<"w", "0">> >>
    /\ \A h \in 1..2 :
          /\ Len(InitSends(h)) = 2
          /\ FirstCollect(h) = 3
          /\ Len(HostSends(h)) > 2

\* the segments of a path between its separators, without the empty ones
\* and the "." ones
RECURSIVE Segments(_, _)
Segments(path, seg) ==
    LET done == IF seg = <<>> \/ seg = <<".">> THEN <<>> ELSE <<seg>>
    IN  IF path = <<>> THEN done
        ELSE IF Head(path) = "/" THEN done \o Segments(Tail(path), <<>>)
        ELSE Segments(Tail(path), Append(seg, Head(path)))

\* the path names an entry of the directory dir itself
IsDirectChild(path, dir) ==
    /\ path # <<>> /\ Head(path) # "/"
    /\ Len(Segments(path, <<>>)) = Len(Segments(dir, <<>>)) + 1
    /\ SubSeq(Segments(path, <<>>), 1, Len(Segments(dir, <<>>))) = Segments(dir, <<>>)
    /\ Segments(path, <<>>)[Len(Segments(path, <<>>))] # <<".", ".">>

NoSeparator(s) == \A i \in 1..Len(s) : s[i] # "/"
OnlyNameChars(s) == \A i \in 1..Len(s) : isalnum(s[i]) \/ s[i] \in {"-", "_"}

\* C21: with the default file name format and a prefix and a suffix that
\* hold no path separator, the path a command's output is written to is a
\* direct child of the output directory, whatever the base name of the
\* command file, the display name of the host and the command are; the group,
\* device and command parts of the file name hold only letters, digits,
\* hyphens and underscores.
C21_WrittenPathIsDirectChild ==
    (/\ fn = "save_path" /\ result # <<>>
     /\ input.options.filename_format = DEFAULT_FILENAME_FORMAT
     /\ NoSeparator(input.options.prefix) /\ NoSeparator(input.options.suffix))
    => /\ IsDirectChild(result[1], OutputDir)
       /\ result[1] = OutputDir \o <<"/">> \o input.options.prefix
                          \o group_of(input.fname) \o <<"_", "_">>
                          \o str_sanitize(input.device_name) \o <<"_", "_">>
                          \o cmd_id_of(input.command) \o input.options.suffix
       /\ OnlyNameChars(group_of(input.fname))
       /\ OnlyNameChars(str_sanitize(input.device_name))
       /\ OnlyNameChars(cmd_id_of(input.command))

\* a display name and a command that hold separators and dots, with a prefix
\* of two dots, have given a path right under the output directory
C21_Witness ==
    /\ fn = "save_path" /\ result # <<>>
    /\ input.options.filename_format = DEFAULT_FILENAME_FORMAT
    /\ input.options.prefix = <<".", ".">>
    /\ input.device_name = <<".", "/">>
    /\ input.command = <<"/", "a">>
    /\ input.fname = <<".", ".">>
    /\ IsDirectChild(result[1], OutputDir)

=============================================================================
